---- MODULE Spec2Model ----
(***************************************************************************)
(* A model of watcher.py: the segment cache (read_cache / write_cache),    *)
(* the content normalisation and classification of check_if_url_changed,   *)
(* and the batch loop of check_change.                                     *)
(*                                                                         *)
(* Text is modelled letter by letter: a Python str is a sequence of        *)
(* letters, NL is the line feed, and a file is the sequence of letters     *)
(* written to it.  A letter of the model stands for an indivisible piece   *)
(* of text that holds no line feed (a tag such as "<a>", one space).       *)
(***************************************************************************)
EXTENDS Integers, Sequences, FiniteSets, TLC

VARIABLES
    cache_dir,   \* the cache directory: file name -> NoFile or File(data)
    diff_dir,    \* the diff directory: set of <<file name, millis>> artifacts
    now,         \* the clock: the instants that have stamped a diff artifact
    driver,      \* the module-level driver: "None", "open" or "quit"
    pc,          \* where the process is: "idle", "check", "prune", "crashed"
    pages,       \* pages_config of the running process
    idx,         \* 1-based index of the page the for loop of check_change is at
    attempt,     \* value of the loop variable of `for _ in range(2)`
    results,     \* what the attempts made so far for the current page returned
    sent,        \* send_notification calls of the running process, in order
    last,        \* the last call of check_if_url_changed: inputs and outcome
    written,     \* file name -> the write_cache arguments its file holds in full
    probe        \* inputs and outputs of the function-level specifications

vars == <<cache_dir, diff_dir, now, driver, pc, pages, idx, attempt, results,
          sent, last, written, probe>>

----------------------------------------------------------------------------
(* Bounds of the model *)

MaxTime == 2     \* instants of the clock (a diff artifact takes one each)
MaxNodes == 1    \* nodes in a rendered document of the batch specification
MaxPages == 2    \* pages in a configuration
MaxLines == 2    \* lines of a segment handed to write_cache on its own
NormNodes == 2   \* nodes in a document handed to the normalisation on its own

----------------------------------------------------------------------------
(* Text *)

NL == "\n"
SP == " "

\* A path of a directory: no file (os.path.isfile is False), or a file with
\* its text
NoFile == [isfile |-> FALSE, data |-> <<>>]
File(data) == [isfile |-> TRUE, data |-> data]

\* str.replace("\n", "")
StripNL(s) == SelectSeq(s, LAMBDA c : c # NL)

\* str.endswith("\n")
EndsWithNL(s) == Len(s) > 0 /\ s[Len(s)] = NL

\* fh.readlines(): the text cut after every line feed, line feeds kept
RECURSIVE ReadLinesFrom(_, _)
ReadLinesFrom(data, cur) ==
    IF data = <<>>
    THEN IF cur = <<>> THEN <<>> ELSE <<cur>>
    ELSE IF Head(data) = NL
         THEN <<Append(cur, NL)>> \o ReadLinesFrom(Tail(data), <<>>)
         ELSE ReadLinesFrom(Tail(data), Append(cur, Head(data)))

readlines(data) == ReadLinesFrom(data, <<>>)

----------------------------------------------------------------------------
(* File names *)

Urls == {"http://x", "http://y"}

\* hashlib.sha256(url).hexdigest(): distinct urls have distinct digests
get_file_name_for_url(url) ==
    CASE url = "http://x" -> "sha_x"
      [] url = "http://y" -> "sha_y"

FileNames == {get_file_name_for_url(u) : u \in Urls}

\* os.path.join(base_dir, filename): the key of the file in the directory
get_file_path_for_url(url, base_dir) == get_file_name_for_url(url)

----------------------------------------------------------------------------
(* Segment cache *)

\* What read_cache hands back: the pair (False, False) when there is no file
\* (isfile is FALSE and both fields stand for False), the pair (first line,
\* other lines) otherwise; lines[0] of a file without any line raises
\* IndexError.
read_cache(url, dir) ==
    LET filepath == get_file_path_for_url(url, dir) IN
    IF ~dir[filepath].isfile
    THEN [raised |-> "", isfile |-> FALSE, css_selector |-> <<>>, segment |-> <<>>]
    ELSE LET lines == readlines(dir[filepath].data) IN
         IF lines = <<>>
         THEN [raised |-> "IndexError", isfile |-> TRUE,
               css_selector |-> <<>>, segment |-> <<>>]
         ELSE [raised |-> "", isfile |-> TRUE,
               css_selector |-> StripNL(lines[1]),
               segment |-> [i \in 1..(Len(lines) - 1) |-> StripNL(lines[i + 1])]]

\* The text write_cache puts into the file
RECURSIVE ContentText(_)
ContentText(content) ==
    IF content = <<>> THEN <<>>
    ELSE Head(content)
         \o (IF EndsWithNL(Head(content)) THEN <<>> ELSE <<NL>>)
         \o ContentText(Tail(content))

CacheText(css_selector, content) == css_selector \o <<NL>> \o ContentText(content)

\* write_cache: open(filepath, "w") replaces the file; the result is the
\* directory after the call
write_cache(url, css_selector, content, dir) ==
    [dir EXCEPT ![get_file_path_for_url(url, dir)] =
        File(CacheText(css_selector, content))]

\* unlink that empties the whole directory
unlink_everything(filepath, dir) == [f \in DOMAIN dir |-> NoFile]

\* os.unlink(cache_file_path)
unlink(filepath, dir) == [dir EXCEPT ![filepath] = NoFile]

----------------------------------------------------------------------------
(* Rendered documents *)

\* A parsed document: node 1 is the <html> element that outerHTML always
\* yields, nodes are numbered in document order, parent[1] = 0 is the
\* BeautifulSoup object itself.
Tags == {"a", "b"}

RECURSIVE AncestorsOf(_, _)
AncestorsOf(parent, n) ==
    IF n = 0 \/ parent[n] = 0 THEN {}
    ELSE {parent[n]} \cup AncestorsOf(parent, parent[n])

\* parent maps of k nodes below <html> that number the nodes in document order
ParentMaps(k) ==
    {p \in [1..(k + 1) -> 0..k] :
        /\ p[1] = 0
        /\ \A i \in 2..(k + 1) : p[i] >= 1 /\ p[i] < i
        /\ \A i \in 2..(k + 1) : p[i] = i - 1 \/ p[i] \in AncestorsOf(p, i - 1)}

DomsOfSize(k) ==
    {[parent |-> p, tag |-> [i \in 1..(k + 1) |-> IF i = 1 THEN "html" ELSE t[i - 1]]] :
        p \in ParentMaps(k), t \in [1..k -> Tags]}

Doms(n) == UNION {DomsOfSize(k) : k \in 0..n}

Nodes(dom) == 1..Len(dom.parent)

Descendants(dom, n) == {m \in Nodes(dom) : n \in AncestorsOf(dom.parent, m)}

----------------------------------------------------------------------------
(* Selectors *)

\* A selector is a str.  Its letters: a tag name, "*", white space (SP, NL:
\* the descendant combinator) and "!", which no selector may hold.
IsSpace(c) == c = SP \/ c = NL

\* the compound selectors of a selector, white space between them dropped
RECURSIVE CompoundsFrom(_, _)
CompoundsFrom(sel, cur) ==
    IF sel = <<>>
    THEN IF cur = <<>> THEN <<>> ELSE <<cur>>
    ELSE IF IsSpace(Head(sel))
         THEN (IF cur = <<>> THEN <<>> ELSE <<cur>>) \o CompoundsFrom(Tail(sel), <<>>)
         ELSE CompoundsFrom(Tail(sel), Append(cur, Head(sel)))

Compounds(sel) == CompoundsFrom(sel, <<>>)

\* select() refuses a selector that is empty or malformed
ValidSelector(sel) ==
    /\ Compounds(sel) # <<>>
    /\ \A i \in 1..Len(sel) : sel[i] # "!"

MatchesCompound(dom, n, c) == c = <<"*">> \/ c = <<dom.tag[n]>>

\* n matches the last compound and has ancestors matching the ones before
RECURSIVE MatchesFrom(_, _, _, _)
MatchesFrom(dom, n, cs, k) ==
    /\ MatchesCompound(dom, n, cs[k])
    /\ k = 1 \/ \E m \in AncestorsOf(dom.parent, n) : MatchesFrom(dom, m, cs, k - 1)

Matches(dom, n, sel) == MatchesFrom(dom, n, Compounds(sel), Len(Compounds(sel)))

\* the nodes of a set, in document order
RECURSIVE InOrder(_)
InOrder(S) ==
    IF S = {} THEN <<>>
    ELSE LET m == CHOOSE x \in S : \A y \in S : x <= y
         IN <<m>> \o InOrder(S \ {m})

\* scope.select(sel): the nodes below scope still in the tree that match, in
\* document order; scope 0 is the whole document, and a decomposed scope has
\* no contents left
select(dom, decomposed, scope, sel) ==
    InOrder({n \in Nodes(dom) \ decomposed :
                /\ scope \notin decomposed
                /\ scope = 0 \/ scope \in AncestorsOf(dom.parent, n)
                /\ Matches(dom, n, sel)})

\* to_decompose.decompose() for every node of a select() result: the nodes and
\* everything below them leave the tree
Decompose(dom, decomposed, found) ==
    decomposed \cup UNION {{found[i]} \cup Descendants(dom, found[i]) : i \in 1..Len(found)}

----------------------------------------------------------------------------
(* Content normalisation: lines 128-151 of check_if_url_changed *)

Separator == <<"##### SEGEMENT SEPARATOR #####">>

RECURSIVE Indent(_)
Indent(depth) == IF depth = 0 THEN <<>> ELSE <<SP>> \o Indent(depth - 1)

\* Tag.prettify(): one line for the opening tag, the children one level
\* deeper, one line for the closing tag, every line ended by a line feed
RECURSIVE PrettifyNode(_, _, _, _), PrettifyAll(_, _, _, _)
PrettifyNode(dom, decomposed, n, depth) ==
    Indent(depth) \o <<"<" \o dom.tag[n] \o ">", NL>>
    \o PrettifyAll(dom, decomposed,
                   InOrder({m \in Nodes(dom) \ decomposed : dom.parent[m] = n}),
                   depth + 1)
    \o Indent(depth) \o <<"</" \o dom.tag[n] \o ">", NL>>
PrettifyAll(dom, decomposed, ns, depth) ==
    IF ns = <<>> THEN <<>>
    ELSE PrettifyNode(dom, decomposed, Head(ns), depth)
         \o PrettifyAll(dom, decomposed, Tail(ns), depth)

\* What bs4 makes of prettify() on a tag that decompose() has emptied is not
\* fixed by the program: the call raises, or yields the lines of a tag
\* without name and contents, or yields nothing.
PrettifyOfDecomposed == {"raise", "lines", "nothing"}

\* part.prettify(): [raised, text]
prettify(dom, decomposed, part, env) ==
    IF part \notin decomposed
    THEN [raised |-> "", text |-> PrettifyNode(dom, decomposed, part, 0)]
    ELSE CASE env.prettify_decomposed = "raise" ->
                [raised |-> "AttributeError", text |-> <<>>]
           [] env.prettify_decomposed = "lines" ->
                [raised |-> "", text |-> <<"<None>", NL, "</None>", NL>>]
           [] env.prettify_decomposed = "nothing" ->
                [raised |-> "", text |-> <<>>]

\* str.split("\n")
RECURSIVE SplitFrom(_, _)
SplitFrom(text, cur) ==
    IF text = <<>> THEN <<cur>>
    ELSE IF Head(text) = NL
         THEN <<cur>> \o SplitFrom(Tail(text), <<>>)
         ELSE SplitFrom(Tail(text), Append(cur, Head(text)))

split(text) == SplitFrom(text, <<>>)

\* filter(lambda x: x, lines)
NonEmptyLines(lines) == SelectSeq(lines, LAMBDA x : x # <<>>)

\* lines 136-144: the inner loop over remove_css_selectors, from the k-th on.
\* The scope is part.parent, and part itself once part has left the tree.
RECURSIVE RemoveFrom(_, _, _, _, _, _)
RemoveFrom(dom, part, remove_css_selectors, k, decomposed, env) ==
    IF k > Len(remove_css_selectors)
    THEN [raised |-> "", decomposed |-> decomposed]
    ELSE LET selector == remove_css_selectors[k]
             part_to_search_in == IF part \notin decomposed THEN dom.parent[part] ELSE part
         IN IF ~ValidSelector(selector)
            THEN [raised |-> env.selector_error, decomposed |-> decomposed]
            ELSE RemoveFrom(dom, part, remove_css_selectors, k + 1,
                            Decompose(dom, decomposed,
                                      select(dom, decomposed, part_to_search_in, selector)),
                            env)

\* lines 130-151: the loop over relevant_parts, from position i on (i counts
\* from 1, idx of the program is i - 1): [raised, content]
RECURSIVE BuildFrom(_, _, _, _, _, _, _)
BuildFrom(dom, relevant_parts, i, remove_css_selectors, decomposed, content, env) ==
    IF i > Len(relevant_parts)
    THEN [raised |-> "", content |-> content]
    ELSE LET part == relevant_parts[i] IN
         IF part \in decomposed
         THEN BuildFrom(dom, relevant_parts, i + 1, remove_css_selectors,
                        decomposed, content, env)
         ELSE LET removed == RemoveFrom(dom, part, remove_css_selectors, 1, decomposed, env)
                  pretty == prettify(dom, removed.decomposed, part, env)
              IN IF removed.raised # ""
                 THEN [raised |-> removed.raised, content |-> content]
                 ELSE IF pretty.raised # ""
                 THEN [raised |-> pretty.raised, content |-> content]
                 ELSE BuildFrom(dom, relevant_parts, i + 1, remove_css_selectors,
                                removed.decomposed,
                                content \o NonEmptyLines(split(pretty.text))
                                        \o (IF i # Len(relevant_parts)
                                            THEN <<Separator>> ELSE <<>>),
                                env)

\* lines 121-151: content_to_compare of a rendered document
Normalize(dom, css_selector, remove_css_selectors, env) ==
    IF ~ValidSelector(css_selector)
    THEN [raised |-> env.selector_error, content |-> <<>>]
    ELSE BuildFrom(dom, select(dom, {}, 0, css_selector), 1, remove_css_selectors,
                   {}, <<>>, env)

----------------------------------------------------------------------------
(* check_if_url_changed *)

\* dict.get(key, default)
Get(page, key, default) == IF key \in DOMAIN page THEN page[key] ELSE default

\* What the libraries do in one call, which the program does not decide:
\* whether rendering fails and with which exception, the document rendered,
\* the exception select() raises on a malformed selector, and prettify() of
\* a decomposed tag.
RenderErrors == {"NoSuchElementException", "WebDriverException"}
SelectorErrors == {"ValueError", "SelectorSyntaxError"}

NoDom == [parent |-> <<0>>, tag |-> <<"html">>]

Environments(doms) ==
    [render_error : RenderErrors, dom : {NoDom},
     selector_error : {"ValueError"}, prettify_decomposed : {"raise"}]
    \cup
    [render_error : {""}, dom : doms,
     selector_error : SelectorErrors, prettify_decomposed : PrettifyOfDecomposed]

\* `not cached_segment`: False (no file) and the empty list are both falsy
NotCachedSegment(cached) == ~cached.isfile \/ cached.segment = <<>>

\* check_if_url_changed with the cache file of the url unlinked before the page
\* is rendered, so that a call that raises leaves no entry
check_if_url_changed_UnlinkFirst(page, env, dir, diffs) ==
    LET url == page["url"]
        css_selector == Get(page, "css_selector", <<"html">>)
        remove_css_selectors == Get(page, "remove_css_selectors", <<>>)
        norm == Normalize(env.dom, css_selector, remove_css_selectors, env)
        content_to_compare == norm.content
        cached == read_cache(url, dir)
        none == [raised |-> "", result |-> "", file_name |-> "", wrote |-> FALSE,
                 cache_dir |-> unlink(get_file_path_for_url(url, dir), dir),
                 diff_dir |-> diffs, content |-> <<>>]
    IN  IF env.render_error # ""
        THEN [none EXCEPT !.raised = env.render_error]
        ELSE IF norm.raised # ""
        THEN [none EXCEPT !.raised = norm.raised]
        ELSE IF cached.raised # ""
        THEN [none EXCEPT !.raised = cached.raised, !.content = content_to_compare]
        ELSE IF NotCachedSegment(cached)
        THEN [none EXCEPT !.result = "INITIALIZED",
                          !.file_name = get_file_name_for_url(url),
                          !.cache_dir = write_cache(url, css_selector, content_to_compare, dir),
                          !.wrote = TRUE,
                          !.content = content_to_compare]
        ELSE IF css_selector # cached.css_selector
        THEN [none EXCEPT !.result = "SELECTOR_CHANGED",
                          !.cache_dir = unlink(get_file_path_for_url(url, dir), dir),
                          !.content = content_to_compare]
        ELSE IF cached.segment # content_to_compare
        THEN [none EXCEPT !.result = "CHANGE",
                          !.file_name = <<get_file_path_for_url(url, diffs), now>>,
                          !.cache_dir = write_cache(url, css_selector, content_to_compare, dir),
                          !.wrote = TRUE,
                          !.diff_dir = diffs \cup {<<get_file_path_for_url(url, diffs), now>>},
                          !.content = content_to_compare]
        ELSE [none EXCEPT !.result = "NO_CHANGE",
                          !.cache_dir = write_cache(url, css_selector, content_to_compare, dir),
                          !.wrote = TRUE,
                          !.content = content_to_compare]

\* The call as a function of the page, the libraries' behaviour and the two
\* directories: the exception raised or the pair returned, the directories
\* after the call, and content_to_compare.  A diff artifact is named by the
\* file name of the url and the instant of the clock.
check_if_url_changed(page, env, dir, diffs) ==
    LET url == page["url"]
        css_selector == Get(page, "css_selector", <<"html">>)
        remove_css_selectors == Get(page, "remove_css_selectors", <<>>)
        norm == Normalize(env.dom, css_selector, remove_css_selectors, env)
        content_to_compare == norm.content
        cached == read_cache(url, dir)
        none == [raised |-> "", result |-> "", file_name |-> "", wrote |-> FALSE,
                 cache_dir |-> dir, diff_dir |-> diffs, content |-> <<>>]
    IN  IF env.render_error # ""
        THEN [none EXCEPT !.raised = env.render_error]
        ELSE IF norm.raised # ""
        THEN [none EXCEPT !.raised = norm.raised]
        ELSE IF cached.raised # ""
        THEN [none EXCEPT !.raised = cached.raised, !.content = content_to_compare]
        ELSE IF NotCachedSegment(cached)
        THEN [none EXCEPT !.result = "INITIALIZED",
                          !.file_name = get_file_name_for_url(url),
                          !.cache_dir = write_cache(url, css_selector, content_to_compare, dir),
                          !.wrote = TRUE,
                          !.content = content_to_compare]
        ELSE IF css_selector # cached.css_selector
        THEN [none EXCEPT !.result = "SELECTOR_CHANGED",
                          !.cache_dir = unlink(get_file_path_for_url(url, dir), dir),
                          !.content = content_to_compare]
        ELSE IF cached.segment # content_to_compare
        THEN [none EXCEPT !.result = "CHANGE",
                          !.file_name = <<get_file_path_for_url(url, diffs), now>>,
                          !.cache_dir = write_cache(url, css_selector, content_to_compare, dir),
                          !.wrote = TRUE,
                          !.diff_dir = diffs \cup {<<get_file_path_for_url(url, diffs), now>>},
                          !.content = content_to_compare]
        ELSE [none EXCEPT !.result = "NO_CHANGE",
                          !.cache_dir = write_cache(url, css_selector, content_to_compare, dir),
                          !.wrote = TRUE,
                          !.content = content_to_compare]

----------------------------------------------------------------------------
(* Configuration *)

default_recipient == "admin"

\* Page records a configuration file may hold
PageInputs ==
    { [name |-> "A", url |-> "http://x", css_selector |-> <<"a">>],
      [name |-> "A", url |-> "http://x", css_selector |-> <<"*">>,
       remove_css_selectors |-> << <<"b">> >>, recipient |-> "bob"],
      [name |-> "B", url |-> "http://y"],
      [name |-> "B", url |-> "http://y", css_selector |-> <<"html", NL, "a">>],
      [name |-> "C", url |-> "http://x", css_selector |-> <<"!">>] }

\* What a configuration file may hold: lists of page records, a list with a
\* record that lacks its url, and a list with a record that has an unknown key
ConfigInputs ==
    UNION {[1..n -> PageInputs] : n \in 0..MaxPages}
        \cup {<<[name |-> "D"]>>,
              <<[name |-> "B", url |-> "http://y", colour |-> "red"]>>}

\* The file at pages_config_path: absent, not JSON, JSON that is no list, or a
\* list
ConfigFileInputs ==
    {[kind |-> k, pages_conf |-> <<>>] : k \in {"missing", "not_json", "not_list"}}
        \cup {[kind |-> "list", pages_conf |-> c] : c \in ConfigInputs}

CONFIG_REQUIRED_PAGE_KEYS == <<"name", "url">>

\* ConfigIsValid with `url` not required
ConfigIsValidWithoutUrl(pages_conf) ==
    \A i \in 1..Len(pages_conf) : "name" \in DOMAIN pages_conf[i]

\* lines 238-244: a page that lacks a required key raises ValueError; an
\* unknown key is logged
ConfigIsValid(pages_conf) ==
    \A i \in 1..Len(pages_conf) : \A k \in 1..Len(CONFIG_REQUIRED_PAGE_KEYS) :
        CONFIG_REQUIRED_PAGE_KEYS[k] \in DOMAIN pages_conf[i]

\* parse_pages_config(pages_config_path): the ValueError raised, or the list
parse_pages_config(file) ==
    IF file.kind # "list" \/ ~ConfigIsValid(file.pages_conf)
    THEN [raised |-> "ValueError", pages_conf |-> <<>>]
    ELSE [raised |-> "", pages_conf |-> file.pages_conf]

----------------------------------------------------------------------------
(* The process: __main__ and check_change *)

Running == pc \in {"check", "prune"}

NoCall == [page |-> 0, attempt |-> 0, raised |-> "", result |-> "", content |-> <<>>]

NoWrite == [made |-> FALSE, css_selector |-> <<>>, content |-> <<>>]
Write(css_selector, content) ==
    [made |-> TRUE, css_selector |-> css_selector, content |-> content]

\* the write_cache arguments behind the files of the cache directory after a
\* call of check_if_url_changed
WrittenAfter(page, r) ==
    LET f == get_file_name_for_url(page["url"]) IN
    IF r.wrote
    THEN [written EXCEPT ![f] = Write(Get(page, "css_selector", <<"html">>), r.content)]
    ELSE IF ~r.cache_dir[f].isfile
    THEN [written EXCEPT ![f] = NoWrite]
    ELSE written

Init ==
    /\ cache_dir = [f \in FileNames |-> NoFile]
    /\ diff_dir = {}
    /\ now = 0
    /\ driver = "None"
    /\ pc = "idle"
    /\ pages = <<>>
    /\ idx = 0
    /\ attempt = 0
    /\ results = <<>>
    /\ sent = <<>>
    /\ last = NoCall
    /\ written = [f \in FileNames |-> NoWrite]
    /\ probe = [op |-> "none"]

\* close_driver()
close_driver == IF driver = "open" THEN "quit" ELSE driver

\* lines 387-396: a new process parses its configuration
StartProcess(file) ==
    /\ ~Running
    /\ results' = <<>>
    /\ last' = NoCall
    /\ attempt' = 0
    /\ IF parse_pages_config(file).raised = ""
       THEN /\ pages' = parse_pages_config(file).pages_conf
            /\ idx' = 1
            /\ pc' = IF pages' = <<>> THEN "prune" ELSE "check"
            /\ sent' = <<>>
            /\ driver' = "None"
       ELSE /\ pages' = <<>>
            /\ idx' = 0
            /\ sent' = <<[page |-> 0, kind |-> "config", recipient |-> default_recipient]>>
            /\ driver' = "None"
            /\ pc' = "exit1"
    /\ UNCHANGED <<cache_dir, diff_dir, now, written>>

\* a process started on any configuration file; probe keeps the file it was
\* given
StartRun(file) ==
    /\ StartProcess(file)
    /\ probe' = [op |-> "config", file |-> file]

\* lines 271 and 276: the exceptions check_change catches
CaughtErrors == {"ValueError", "NoSuchElementException"}

\* line 268: range(2)
Attempts == 2

\* LoopContinues without the `break` of line 303
LoopContinuesWithoutBreak(result, attempt_no) == attempt_no + 1 < Attempts

\* lines 299-303: `continue` after SELECTOR_CHANGED, `break` after anything
\* else; the loop ends when range(2) is used up
LoopContinues(result, attempt_no) ==
    result = "SELECTOR_CHANGED" /\ attempt_no + 1 < Attempts

\* Notification with SELECTOR_CHANGED announced like INITIALIZED
NotificationOnSelectorChange(raised, result) ==
    IF raised \in CaughtErrors THEN "error"
    ELSE IF raised # "" THEN ""
    ELSE IF result \in {"INITIALIZED", "SELECTOR_CHANGED"} THEN "initialized"
    ELSE IF result = "CHANGE" THEN "changed"
    ELSE ""

\* lines 271-298: the notification a call's outcome leads to, "" for none
Notification(raised, result) ==
    IF raised \in CaughtErrors THEN "error"
    ELSE IF raised # "" THEN ""
    ELSE IF result = "INITIALIZED" THEN "initialized"
    ELSE IF result = "CHANGE" THEN "changed"
    ELSE ""

\* lines 260-303: one iteration of `for _ in range(2)` for the page at idx
Attempt(env) ==
    /\ pc = "check"
    /\ now < MaxTime
    /\ \E called \in {<<check_if_url_changed(pages[idx], env, cache_dir, diff_dir)>>} :
       LET page == pages[idx]
           recipient == Get(page, "recipient", default_recipient)
           r == called[1]
           outcome == IF r.raised # "" THEN r.raised ELSE r.result
           again == r.raised = "" /\ LoopContinues(r.result, attempt)
           kind == Notification(r.raised, r.result)
       IN /\ now' = IF r.diff_dir # diff_dir THEN now + 1 ELSE now
          /\ cache_dir' = r.cache_dir
          /\ diff_dir' = r.diff_dir
          /\ driver' = "open"
          /\ last' = [page |-> idx, attempt |-> attempt, raised |-> r.raised,
                      result |-> r.result, content |-> r.content]
          /\ written' = WrittenAfter(page, r)
          /\ results' = IF last.page = idx THEN Append(results, outcome) ELSE <<outcome>>
          /\ sent' = IF kind # ""
                     THEN Append(sent, [page |-> idx, kind |-> kind, recipient |-> recipient])
                     ELSE sent
          /\ IF r.raised # "" /\ r.raised \notin CaughtErrors
             THEN pc' = "crashed" /\ UNCHANGED <<idx, attempt>>
             ELSE IF again
             THEN pc' = "check" /\ attempt' = attempt + 1 /\ UNCHANGED idx
             ELSE /\ attempt' = 0
                  /\ idx' = idx + 1
                  /\ pc' = IF idx = Len(pages) THEN "prune" ELSE "check"
    /\ UNCHANGED <<pages, probe>>

\* clear_old_files(base_dir, max_age): the files of old, those whose age
\* exceeds max_age, are unlinked
ClearOldCache(dir, old) == [f \in DOMAIN dir |-> IF f \in old THEN NoFile ELSE dir[f]]

WrittenAfterClear(old) == [f \in FileNames |-> IF f \in old THEN NoWrite ELSE written[f]]

ClearOldDiffs(diffs, old) == diffs \ old

\* lines 407-410: retention pruning, close_driver(), the process ends
Prune(old_cache, old_diffs) ==
    /\ pc = "prune"
    /\ cache_dir' = ClearOldCache(cache_dir, old_cache)
    /\ diff_dir' = ClearOldDiffs(diff_dir, old_diffs)
    /\ driver' = close_driver
    /\ written' = WrittenAfterClear(old_cache)
    /\ pc' = "exit0"
    /\ UNCHANGED <<now, pages, idx, attempt, results, sent, last, probe>>

\* A cache file is left cut short (a write that was interrupted): empty, or
\* holding the rule line only
FirstLineLength(data) == IF readlines(data) = <<>> THEN 0 ELSE Len(readlines(data)[1])

TruncateCache(f, empty) ==
    /\ ~Running
    /\ cache_dir[f].isfile
    /\ LET keep == IF empty THEN 0 ELSE FirstLineLength(cache_dir[f].data)
       IN /\ keep < Len(cache_dir[f].data)
          /\ cache_dir' = [cache_dir EXCEPT ![f].data = SubSeq(@, 1, keep)]
    /\ written' = [written EXCEPT ![f] = NoWrite]
    /\ UNCHANGED <<diff_dir, now, driver, pc, pages, idx, attempt, results,
                   sent, last, probe>>

Next ==
    \/ \E file \in ConfigFileInputs : StartRun(file)
    \/ \E env \in Environments(Doms(MaxNodes)) : Attempt(env)
    \/ \E old_cache \in SUBSET {f \in FileNames : cache_dir[f].isfile},
          old_diffs \in SUBSET diff_dir : Prune(old_cache, old_diffs)
    \/ \E f \in FileNames, empty \in BOOLEAN : TruncateCache(f, empty)

Spec == Init /\ [][Next]_vars

----------------------------------------------------------------------------
(* The segment cache on its own: write_cache and read_cache applied to *)
(* selectors and segments drawn from bounded sets                       *)

RuleInputs == {<<"a">>, <<"*">>, <<"html", NL, "a">>}

\* lines as prettify() and the filter leave them: not empty, no line break
LineInputs == {<<"<a>">>, <<SP, "<b>">>}

SegmentInputs == UNION {[1..n -> LineInputs] : n \in 0..MaxLines}

CacheWrite(url, css_selector, content) ==
    /\ cache_dir' = write_cache(url, css_selector, content, cache_dir)
    /\ written' = [written EXCEPT ![get_file_name_for_url(url)] =
                       Write(css_selector, content)]
    /\ probe' = [op |-> "write", url |-> url]
    /\ UNCHANGED <<diff_dir, now, driver, pc, pages, idx, attempt, results, sent, last>>

CacheRead(url) ==
    /\ probe' = [op |-> "read", url |-> url, value |-> read_cache(url, cache_dir)]
    /\ UNCHANGED <<cache_dir, diff_dir, now, driver, pc, pages, idx, attempt, results,
                   sent, last, written>>

NextCache ==
    \/ \E url \in Urls, css_selector \in RuleInputs, content \in SegmentInputs :
          CacheWrite(url, css_selector, content)
    \/ \E url \in Urls : CacheRead(url)

SpecCache == Init /\ [][NextCache]_vars

----------------------------------------------------------------------------
(* The normalisation on its own: lines 121-151 applied to documents, *)
(* selectors and exclude rules drawn from bounded sets                *)

SelectorInputs == {<<"a">>, <<"*">>, <<"html">>, <<"html", NL, "a">>, <<"!">>}

RemoveInputs == {<<>>, << <<"b">> >>, << <<"a">> >>, << <<"b">>, <<"!">> >>}

NormalizeInputs ==
    [op : {"input"},
     css_selector : SelectorInputs,
     remove_css_selectors : RemoveInputs,
     env : [render_error : {""}, dom : Doms(NormNodes),
            selector_error : SelectorErrors,
            prettify_decomposed : PrettifyOfDecomposed]]

InitNormalize ==
    /\ cache_dir = [f \in FileNames |-> NoFile]
    /\ diff_dir = {}
    /\ now = 0
    /\ driver = "None"
    /\ pc = "idle"
    /\ pages = <<>>
    /\ idx = 0
    /\ attempt = 0
    /\ results = <<>>
    /\ sent = <<>>
    /\ last = NoCall
    /\ written = [f \in FileNames |-> NoWrite]
    /\ probe \in NormalizeInputs

ApplyNormalize ==
    /\ probe.op = "input"
    /\ probe' = [op |-> "normalized",
                 css_selector |-> probe.css_selector,
                 remove_css_selectors |-> probe.remove_css_selectors,
                 env |-> probe.env,
                 relevant_parts |-> IF ValidSelector(probe.css_selector)
                                    THEN select(probe.env.dom, {}, 0, probe.css_selector)
                                    ELSE <<>>,
                 out |-> Normalize(probe.env.dom, probe.css_selector,
                                   probe.remove_css_selectors, probe.env)]
    /\ UNCHANGED <<cache_dir, diff_dir, now, driver, pc, pages, idx, attempt, results,
                   sent, last, written>>

NextNormalize == ApplyNormalize

SpecNormalize == InitNormalize /\ [][NextNormalize]_vars

----------------------------------------------------------------------------
(* Repeated runs of one configuration against pages that do not change: *)
(* probe holds the configuration file, the markup each url renders to   *)
(* and the number of runs started                                        *)

MaxRuns == 3

\* valid configurations whose pages have pairwise distinct urls
SteadyConfigInputs ==
    {c \in ConfigInputs :
        /\ ConfigIsValid(c)
        /\ \A i, j \in 1..Len(c) : i # j => c[i]["url"] # c[j]["url"]}

\* what a url renders to, with no render error
MarkupInputs ==
    [render_error : {""}, dom : Doms(MaxNodes),
     selector_error : SelectorErrors, prettify_decomposed : PrettifyOfDecomposed]

InitSteady ==
    /\ cache_dir = [f \in FileNames |-> NoFile]
    /\ diff_dir = {}
    /\ now = 0
    /\ driver = "None"
    /\ pc = "idle"
    /\ pages = <<>>
    /\ idx = 0
    /\ attempt = 0
    /\ results = <<>>
    /\ sent = <<>>
    /\ last = NoCall
    /\ written = [f \in FileNames |-> NoWrite]
    /\ probe \in [op : {"steady"},
                   file : {[kind |-> "list", pages_conf |-> c] : c \in SteadyConfigInputs},
                   markup : [Urls -> MarkupInputs],
                   run : {0}]

\* the next run of the same configuration
SteadyStart ==
    /\ probe.run < MaxRuns
    /\ StartProcess(probe.file)
    /\ probe' = [probe EXCEPT !.run = @ + 1]

\* an attempt that renders the page's url to the same markup as ever
SteadyAttempt ==
    /\ pc = "check"
    /\ Attempt(probe.markup[pages[idx]["url"]])

\* retention pruning that finds no file old enough
SteadyPrune ==
    /\ pc = "prune"
    /\ Prune({}, {})

NextSteady == SteadyStart \/ SteadyAttempt \/ SteadyPrune

SpecSteady == InitSteady /\ [][NextSteady]_vars

----------------------------------------------------------------------------
(* Properties.  A step taken from a state with pc = "check" is one call of   *)
(* check_if_url_changed for the page at idx, and last' holds its outcome.    *)

CurPage == pages[idx]
CurUrl == CurPage["url"]
CurFile == get_file_name_for_url(CurUrl)
CurRule == Get(CurPage, "css_selector", <<"html">>)
CurRecipient == Get(CurPage, "recipient", default_recipient)

\* C1: idempotence of check.  When the cache holds the entry a check stored
\* for this very markup under the page's rule, a call with the same markup and
\* rule returns NO_CHANGE and leaves the cache as it was (so the same holds
\* of the call after it).
C1_Idempotence ==
    [][(/\ pc = "check"
        /\ last'.raised = ""
        /\ written[CurFile] = Write(CurRule, last'.content))
       => (last'.result = "NO_CHANGE" /\ cache_dir' = cache_dir)]_vars

\* C2: rule-change recovery.  A call that finds an entry stored under another
\* rule, whatever its segment, returns SELECTOR_CHANGED and leaves no entry
\* for the url; the check that follows it returns INITIALIZED.
C2_RuleChangeRecovery ==
    [][(pc = "check" /\ last'.raised = "")
       => /\ (written[CurFile].made /\ written[CurFile].css_selector # CurRule)
               => (last'.result = "SELECTOR_CHANGED" /\ ~cache_dir'[CurFile].isfile)
          /\ (last.page = idx /\ last.result = "SELECTOR_CHANGED")
               => last'.result = "INITIALIZED"]_vars

\* C3: a diff artifact is created if and only if the call returns CHANGE, and
\* a call that returns does so with CHANGE exactly when an entry with the
\* same rule existed whose segment differs from the new segment.
C3_DiffIffChange ==
    [][pc = "check"
       => /\ (diff_dir' \ diff_dir # {}) <=> (last'.result = "CHANGE")
          /\ last'.raised = ""
               => ((last'.result = "CHANGE")
                   <=> (/\ cache_dir[CurFile].isfile
                        /\ read_cache(CurUrl, cache_dir).css_selector = CurRule
                        /\ read_cache(CurUrl, cache_dir).segment # last'.content))]_vars

\* C4: cache round trip.  read_cache returns exactly the selector and the
\* segment of the last write_cache for the url.
C4_CacheRoundTrip ==
    (probe.op = "read" /\ written[get_file_name_for_url(probe.url)].made)
    => /\ probe.value.raised = ""
       /\ probe.value.isfile
       /\ probe.value.css_selector = written[get_file_name_for_url(probe.url)].css_selector
       /\ probe.value.segment = written[get_file_name_for_url(probe.url)].content

\* C5: for a page whose entry was written under another rule, the first
\* attempt returns SELECTOR_CHANGED and the second attempt INITIALIZED, never
\* SELECTOR_CHANGED: it sends the one "initialized" notification and leaves an
\* entry holding the current rule.
C5_RetryInitializes ==
    [][(pc = "check" /\ last'.raised = "")
       => /\ (/\ attempt = 0
               /\ written[CurFile].made
               /\ written[CurFile].css_selector # CurRule)
              => last'.result = "SELECTOR_CHANGED"
          /\ attempt >= 1
              => /\ last'.result = "INITIALIZED"
                 /\ sent' = Append(sent, [page |-> idx, kind |-> "initialized",
                                          recipient |-> CurRecipient])
                 /\ written'[CurFile].made
                 /\ written'[CurFile].css_selector = CurRule]_vars

\* C6: bounded retry.  check_if_url_changed is called at most twice for a
\* page, and a second time only after a first call that returned
\* SELECTOR_CHANGED.
C6_BoundedRetry ==
    /\ Len(results) <= 2
    /\ Len(results) = 2 => results[1] = "SELECTOR_CHANGED"

C6_Witness ==
    /\ results = <<"SELECTOR_CHANGED", "INITIALIZED">>
    /\ idx = 2
    /\ last.page = 1

\* The per-page errors: the malformed rule and the render failure as lines 271
\* and 276 name them, and the IndexError of an unreadable cache entry
PerPageErrors == CaughtErrors \cup {"IndexError"}

\* C7: per-page error isolation.  A call that fails with a per-page error is
\* caught: one error notification goes to the page's recipient or the default
\* one, and the batch goes on with the next page.
C7_ErrorIsolation ==
    [][(pc = "check" /\ last'.raised \in PerPageErrors)
       => /\ pc' = (IF idx = Len(pages) THEN "prune" ELSE "check")
          /\ idx' = idx + 1
          /\ sent' = Append(sent, [page |-> idx, kind |-> "error",
                                   recipient |-> CurRecipient])]_vars

\* C8: a cache file that is empty or holds the rule line only is treated as
\* no entry: reading it does not raise, and a call that returns does so with
\* INITIALIZED and a complete entry of the current rule and segment.
C8_CorruptionIsAbsence ==
    [][(/\ pc = "check"
        /\ cache_dir[CurFile].isfile
        /\ Len(readlines(cache_dir[CurFile].data)) <= 1)
       => /\ last'.raised # "IndexError"
          /\ last'.raised = ""
               => /\ last'.result = "INITIALIZED"
                  /\ cache_dir'[CurFile] = File(CacheText(CurRule, last'.content))]_vars

\* The number of send_notification calls made for page p of the batch
NotificationsFor(p) == Cardinality({i \in 1..Len(sent) : sent[i].page = p})

\* The page last checked has left the retry loop
PageDone == last.page >= 1 /\ ~(pc = "check" /\ idx = last.page)

\* C9: outcome to notification.  A page causes at most one send_notification
\* call: exactly one once its final outcome is INITIALIZED, CHANGE or a caught
\* error, none when it is NO_CHANGE, and none for a first-attempt
\* SELECTOR_CHANGED whose retry is still to come.
C9_OutcomeToNotification ==
    /\ \A p \in 1..Len(pages) : NotificationsFor(p) <= 1
    /\ last.page >= 1
        => LET n == NotificationsFor(last.page)
               final == results[Len(results)]
           IN /\ (PageDone /\ final \in {"INITIALIZED", "CHANGE"} \cup CaughtErrors) => n = 1
              /\ (PageDone /\ final = "NO_CHANGE") => n = 0
              /\ ~PageDone => (final = "SELECTOR_CHANGED" /\ n = 0)

C9_Witness ==
    /\ Len(sent) = 2
    /\ sent[1].kind = "changed"
    /\ sent[2].kind = "error"
    /\ PageDone

\* The number of separator lines of a normalized segment
SeparatorCount(content) ==
    Cardinality({i \in 1..Len(content) : content[i] = Separator})

\* C10: separator correctness.  Separator lines stand only between the
\* outputs of two nodes: never first, never last, never two in a row, and
\* N - 1 of them when no exclude rule is given and N nodes are matched.
C10_SeparatorsBetween ==
    (probe.op = "normalized" /\ probe.out.raised = "")
    => LET content == probe.out.content
           N == Len(probe.relevant_parts)
       IN /\ content # <<>> => (content[1] # Separator /\ content[Len(content)] # Separator)
          /\ \A i \in 1..(Len(content) - 1) :
                ~(content[i] = Separator /\ content[i + 1] = Separator)
          /\ (probe.remove_css_selectors = <<>> /\ N >= 1)
               => SeparatorCount(content) = N - 1

\* The ways a process ends: normal completion, exit(1) after a configuration
\* error, and an exception that leaves check_change
Ended == pc \in {"exit0", "exit1", "crashed"}

\* C11: renderer lifecycle.  A driver is created only by a call of
\* get_rendered_dom made while none exists, every later call of the run
\* reuses it, and on every way the process ends a created driver has been
\* quit.
C11_RendererLifecycle ==
    [][/\ (driver' = "open" /\ driver # "open") => (driver = "None" /\ pc = "check")
       /\ (pc = "check" /\ driver = "open") => driver' = "open"
       /\ Ended' => driver' # "open"]_vars

\* A configuration the run has to refuse: no file, no JSON, no list, or a page
\* record without `name` or without `url`
ConfigError(file) ==
    \/ file.kind # "list"
    \/ \E i \in 1..Len(file.pages_conf) :
          "name" \notin DOMAIN file.pages_conf[i] \/ "url" \notin DOMAIN file.pages_conf[i]

\* C12: configuration errors abort before any work.  A process given such a
\* configuration ends with exit code 1 having rendered and checked no page,
\* with the cache and the diffs as they were and one notification to the
\* default recipient; any other configuration, unknown keys included, starts
\* the batch.
C12_ConfigErrorAborts ==
    [][(~Running /\ (pc' # pc \/ probe' # probe))
       => IF ConfigError(probe'.file)
          THEN /\ pc' = "exit1"
               /\ cache_dir' = cache_dir
               /\ diff_dir' = diff_dir
               /\ driver' = "None"
               /\ results' = <<>>
               /\ last' = NoCall
               /\ sent' = <<[page |-> 0, kind |-> "config", recipient |-> default_recipient]>>
          ELSE /\ pc' = (IF probe'.file.pages_conf = <<>> THEN "prune" ELSE "check")
               /\ pages' = probe'.file.pages_conf
               /\ sent' = <<>>]_vars

C12_Witness ==
    /\ pc = "exit1"
    /\ probe.file.kind = "list"
    /\ probe.file.pages_conf # <<>>
    /\ \E f \in FileNames : cache_dir[f].isfile
    /\ diff_dir # {}

\* C13: cache consistency.  Whenever the cache holds an entry that a check
\* stored for a url, reading it gives exactly the rule and the segment of the
\* most recent check of that url that returned INITIALIZED, NO_CHANGE or
\* CHANGE.
C13_CacheConsistency ==
    \A url \in Urls :
        LET f == get_file_name_for_url(url) IN
        written[f].made
        => /\ cache_dir[f].isfile
           /\ read_cache(url, cache_dir).raised = ""
           /\ read_cache(url, cache_dir).css_selector = written[f].css_selector
           /\ read_cache(url, cache_dir).segment = written[f].content

\* C14: classification order.  With no cache file for the url, or with the
\* file a check stored, a call that returns does so with INITIALIZED exactly
\* when no entry exists; when one exists, whatever its segment, the result is
\* SELECTOR_CHANGED if the cached rule differs from the page's rule, and
\* NO_CHANGE or CHANGE otherwise.
C14_ClassificationOrder ==
    [][(/\ pc = "check"
        /\ last'.raised = ""
        /\ cache_dir[CurFile].isfile => written[CurFile].made)
       => /\ (last'.result = "INITIALIZED") <=> ~cache_dir[CurFile].isfile
          /\ cache_dir[CurFile].isfile
               => IF read_cache(CurUrl, cache_dir).css_selector # CurRule
                  THEN last'.result = "SELECTOR_CHANGED"
                  ELSE last'.result \in {"NO_CHANGE", "CHANGE"}]_vars

\* C15: state unchanged on error.  A call that fails with a render failure or
\* with a malformed selection or exclude rule leaves the cache directory and
\* the diff directory exactly as they were, so the entry the last successful
\* check stored is still the one the next check compares against.
C15_StateUnchangedOnError ==
    [][(pc = "check" /\ last'.raised \in RenderErrors \cup SelectorErrors)
       => /\ cache_dir' = cache_dir
          /\ diff_dir' = diff_dir
          /\ written' = written]_vars

C15_Witness ==
    /\ last.page >= 1
    /\ last.raised \in SelectorErrors
    /\ written[get_file_name_for_url(pages[last.page]["url"])].made
    /\ written[get_file_name_for_url(pages[last.page]["url"])].content # <<>>
    /\ diff_dir # {}

\* C16: steady state sends nothing.  With one configuration of pairwise
\* distinct urls, markup that stays the same, no render error and nothing
\* pruned, a call that returns in the second or a later run sends no
\* notification, creates no diff artifact and leaves the cache as it was.
C16_SteadyStateSilent ==
    [][(pc = "check" /\ probe.run >= 2 /\ last'.raised = "")
       => /\ sent' = sent
          /\ diff_dir' = diff_dir
          /\ cache_dir' = cache_dir]_vars

\* C17: per-url isolation.  A call for a page leaves the cache file of every
\* other url as it was, removes no diff artifact, and creates only diff
\* artifacts named after the page's url, whatever it returns or raises.
C17_PerUrlIsolation ==
    [][pc = "check"
       => /\ \A f \in FileNames \ {CurFile} : cache_dir'[f] = cache_dir[f]
          /\ diff_dir \subseteq diff_dir'
          /\ \A d \in diff_dir' \ diff_dir :
                d[1] = get_file_path_for_url(CurUrl, diff_dir)]_vars

C17_Witness ==
    /\ last.page >= 1
    /\ last.result = "SELECTOR_CHANGED"
    /\ diff_dir # {}
    /\ \E f \in FileNames \ {get_file_name_for_url(pages[last.page]["url"])} :
          cache_dir[f].isfile

====
